---- MODULE Spec2Model ----
(***************************************************************************)
(* Frame presentation pipeline of src/src/uniformbuffer.rs:                *)
(* HelloTriangleApplication::run (the event loop), VulkanDetails::         *)
(* draw_frame, recreate_swap_chain, cleanup_swap_chain and cleanup, with   *)
(* the GPU completing queue submissions asynchronously.                    *)
(*                                                                         *)
(* The CPU thread is one process whose position is pc; draw_frame is split *)
(* at its backend calls so that GPU completions interleave with it.        *)
(***************************************************************************)
EXTENDS Integers, Naturals, Sequences, FiniteSets, TLC

\* ------------------------------------------------------------------ bounds
\* largest window dimension the window system reports (0 = minimised)
MaxDim == 1
\* largest number of images the backend hands out for one swapchain
MaxImages == 2

\* ------------------------------------------------------- program constants
MAX_FRAMES_IN_FLIGHT == 2

Slots == 0 .. (MAX_FRAMES_IN_FLIGHT - 1)
Dims == 0 .. MaxDim
ImageCounts == 1 .. MaxImages

\* VkResult values acquire_next_image / queue_present can report.  ash maps
\* SUCCESS to Ok(.., false), SUBOPTIMAL_KHR to Ok(.., true), the rest to Err.
VkResults == {"SUCCESS", "SUBOPTIMAL_KHR", "ERROR_OUT_OF_DATE_KHR", "ERROR_SURFACE_LOST_KHR"}
IsOk(result) == result \in {"SUCCESS", "SUBOPTIMAL_KHR"}

\* resources whose lifetime the model tracks
SwapChainResources == {"framebuffers", "image_views", "swap_chain"}
\* the device and what cleanup() destroys through it besides the swapchain
DeviceResources ==
    {"uniform_buffers", "descriptor_pool", "descriptor_set_layout",
     "index_buffer", "vertex_buffer", "graphics_pipeline", "pipeline_layout",
     "render_pass", "sync_objects", "command_pool", "device"}
\* what cleanup() destroys through the instance
InstanceResources == {"debug_messenger", "surface", "instance"}
AllResources == SwapChainResources \cup DeviceResources \cup InstanceResources

\* the order in which VulkanDetails::new creates the resources
CreationOrder ==
    << "instance", "debug_messenger", "surface", "device", "swap_chain",
       "image_views", "render_pass", "descriptor_set_layout",
       "pipeline_layout", "graphics_pipeline", "framebuffers", "command_pool",
       "vertex_buffer", "index_buffer", "uniform_buffers", "descriptor_pool",
       "sync_objects" >>

VARIABLES
    pc,                       \* position of the CPU thread
    rc_ret,                   \* where recreate_swap_chain returns to
    exiting,                  \* control_flow == ControlFlow::Exit
    width, height,            \* window.inner_size()
    framebuffer_resized,      \* VulkanDetails.framebuffer_resized
    current_frame,            \* VulkanDetails.current_frame
    in_flight_fences,         \* slot -> fence is signaled
    inflight,                 \* slot -> a queue submission of it is executing
    image_index,              \* image index of the running draw_frame
    swap_chain_images,        \* VulkanDetails.swap_chain_images
    swap_chain_image_views,   \* VulkanDetails.swap_chain_image_views
    swap_chain_framebuffers,  \* VulkanDetails.swap_chain_framebuffers
    swap_chain_image_format,  \* VulkanDetails.swap_chain_image_format
    render_pass,              \* VulkanDetails.render_pass: what it was built with
    command_buffers,          \* slot -> the descriptor sets its recording binds
    image_available_semaphores,  \* slot -> a signal of acquire is unconsumed
    render_finished_semaphores,  \* slot -> image of the queued present that
                                 \* has still to wait on it, or NoImage
    backend_image_count,      \* count get_swapchain_images returned last
    prev_image_count,         \* the count it returned the time before
    live,                     \* resources created and not destroyed
    teardown,                 \* resources the last cleanup call destroyed, in order
    cycle,                    \* what the current / last draw_frame call did
    upload,                   \* a buffer upload at startup (create_vertex_buffer)
    call,                     \* a helper function of startup applied to an input
    build                     \* the profile the program was compiled with

vars == << pc, rc_ret, exiting, width, height, framebuffer_resized,
           current_frame, in_flight_fences, inflight, image_index,
           swap_chain_images, swap_chain_image_views, swap_chain_framebuffers,
           backend_image_count, prev_image_count, live, teardown, cycle,
           swap_chain_image_format, render_pass, command_buffers,
           image_available_semaphores, render_finished_semaphores,
           upload, call, build >>

window == << width, height >>
sync == << in_flight_fences, inflight >>
chain == << swap_chain_images, swap_chain_image_views, swap_chain_framebuffers,
            backend_image_count, prev_image_count, live, teardown >>
render_target == << swap_chain_image_format, render_pass >>
semaphores == << image_available_semaphores, render_finished_semaphores >>
\* the state of startup, which is over when the event loop runs
startup == << upload, call, build >>
\* the state of the event loop and of draw_frame
frame_loop == << pc, rc_ret, exiting, width, height, framebuffer_resized,
            current_frame, in_flight_fences, inflight, image_index,
            swap_chain_images, swap_chain_image_views, swap_chain_framebuffers,
            backend_image_count, prev_image_count, live, teardown, cycle,
            swap_chain_image_format, render_pass, command_buffers,
            image_available_semaphores, render_finished_semaphores, build >>

\* ------------------------------------------------------------ pure helpers

\* choose_swap_surface_format
Formats == {"B8G8R8A8_SRGB", "B8G8R8A8_UNORM", "R8G8B8A8_SRGB"}
ColorSpaces == {"SRGB_NONLINEAR", "EXTENDED_SRGB_LINEAR"}
SurfaceFormats == [format : Formats, color_space : ColorSpaces]

choose_swap_surface_formatMut17(formats) ==
    LET RECURSIVE scan(_)
        scan(i) ==
            IF i > Len(formats) THEN formats[1]
            ELSE IF formats[i].format = "B8G8R8A8_SRGB" THEN formats[i]
            ELSE scan(i + 1)
    IN  scan(1)

choose_swap_surface_format(formats) ==
    LET RECURSIVE scan(_)
        scan(i) ==
            IF i > Len(formats) THEN formats[1]
            ELSE IF /\ formats[i].format = "B8G8R8A8_SRGB"
                    /\ formats[i].color_space = "SRGB_NONLINEAR"
                    THEN formats[i]
            ELSE scan(i + 1)
    IN  scan(1)

\* the format lists get_physical_device_surface_formats reports to
\* create_swap_chain in the frame loop
SurfaceFormatLists ==
    { << [format |-> "B8G8R8A8_SRGB", color_space |-> "SRGB_NONLINEAR"] >>,
      << [format |-> "B8G8R8A8_UNORM", color_space |-> "SRGB_NONLINEAR"] >> }

\* the swapchain fields of struct VulkanDetails
swap_chain_state ==
    [ swap_chain_images |-> swap_chain_images,
      swap_chain_image_format |-> swap_chain_image_format,
      swap_chain_image_views |-> swap_chain_image_views,
      swap_chain_framebuffers |-> swap_chain_framebuffers ]

\* create_render_pass: the colour attachment has the format it is given
create_render_pass(format) == [format |-> format]

\* no present operation waits on the semaphore
NoImage == 0 - 1

\* create_descriptor_sets: descriptor set i is written with uniform_buffers[i]
descriptor_sets == [i \in Slots |-> [buffer |-> i]]

\* create_image_views: one view per image, in order, of the given format
create_image_views(images, format) ==
    [k \in 1 .. Len(images) |-> [image |-> images[k], format |-> format]]

\* create_framebuffers: one framebuffer per view, in order
create_framebuffers(views) ==
    [k \in 1 .. Len(views) |-> [attachment |-> views[k]]]

\* get_swapchain_images: the n image handles of a fresh swapchain
get_swapchain_images(n) == [k \in 1 .. n |-> k - 1]

\* record of a draw_frame call that has done nothing yet
NewCycle(frame) ==
    [ frame0 |-> frame, fence_observed |-> FALSE,
      acq |-> "none", pres |-> "none", resize_pending |-> FALSE,
      fence_reset |-> FALSE, cb_reset |-> FALSE, recorded |-> FALSE,
      ubo_written |-> FALSE, ubo_slot |-> 0 - 1,
      submitted |-> FALSE, presented |-> FALSE,
      recreates |-> 0, advanced |-> FALSE ]

\* the match on queue_present's result: does this outcome call recreate?
PresentRecreatesMut7(result, resized) ==
    \/ IsOk(result) /\ result = "SUBOPTIMAL_KHR"
    \/ result = "ERROR_OUT_OF_DATE_KHR"

PresentRecreates(result, resized) ==
    \/ IsOk(result) /\ (result = "SUBOPTIMAL_KHR" \/ resized)
    \/ result = "ERROR_OUT_OF_DATE_KHR"

\* the match on queue_present's result: does this outcome panic?
PresentPanics(result) == ~IsOk(result) /\ result # "ERROR_OUT_OF_DATE_KHR"

\* the match on acquire_next_image's result
AcquirePanics(result) == ~IsOk(result) /\ result # "ERROR_OUT_OF_DATE_KHR"

\* The profiles of a build. They differ where the code's behaviour is not
\* defined by the language: the arrays behind the pointers of SubmitInfo and
\* PresentInfoKHR are temporaries that are dropped before queue_submit and
\* queue_present read them, and `min_image_count + 1` is an addition that
\* is checked only when overflow checks are compiled in.
Builds == {"debug", "release"}

\* what queue_submit reads behind p_wait_semaphores, p_command_buffers and
\* p_signal_semaphores: the handles of the slot where the dead temporaries
\* still hold them, anything else where their memory was reused; the fence
\* is passed by value
submit_info(slot) ==
    IF build = "debug"
       THEN [ wait_semaphore |-> << "image_available", slot >>,
              command_buffer |-> << "command_buffer", slot >>,
              signal_semaphore |-> << "render_finished", slot >>,
              fence |-> << "in_flight", slot >> ]
       ELSE [ wait_semaphore |-> << "dangling" >>,
              command_buffer |-> << "dangling" >>,
              signal_semaphore |-> << "dangling" >>,
              fence |-> << "in_flight", slot >> ]

\* what queue_present reads behind p_wait_semaphores and p_swapchains; the
\* image index is behind a pointer to a live local
present_info(slot, image) ==
    IF build = "debug"
       THEN [ wait_semaphore |-> << "render_finished", slot >>,
              swapchain |-> << "swap_chain" >>,
              image_index |-> image ]
       ELSE [ wait_semaphore |-> << "dangling" >>,
              swapchain |-> << "dangling" >>,
              image_index |-> image ]

\* the uploads of startup are over: nothing of them is left but the
\* device-local buffers, whose content the frame loop never changes
NoUpload ==
    [ pc |-> "returned", usage |-> "none", bytes |-> << >>,
      staging |-> "freed", staging_memory |-> "freed", staging_data |-> << >>,
      dst |-> "live", dst_data |-> << >>,
      cb |-> "freed", region |-> [src_offset |-> 0, dst_offset |-> 0, size |-> 0],
      submits |-> 0, pending |-> FALSE, copied |-> FALSE, idle_observed |-> FALSE ]
\* no helper function applied
NoCall == [fn |-> "none"]

\* -------------------------------------------------------------------- Init
Init ==
    /\ pc = "loop"
    /\ rc_ret = "loop"
    /\ exiting = FALSE
    /\ width \in 1 .. MaxDim
    /\ height \in 1 .. MaxDim
    /\ framebuffer_resized = FALSE
    /\ current_frame = 0
    /\ in_flight_fences = [i \in Slots |-> TRUE]
    /\ inflight = [i \in Slots |-> FALSE]
    /\ image_index = 0
    /\ \E n \in ImageCounts :
          /\ swap_chain_images = get_swapchain_images(n)
          /\ backend_image_count = n
          /\ prev_image_count = n
    /\ \E formats \in SurfaceFormatLists :
          swap_chain_image_format = choose_swap_surface_format(formats).format
    /\ swap_chain_image_views =
          create_image_views(swap_chain_images, swap_chain_image_format)
    /\ render_pass = create_render_pass(swap_chain_image_format)
    /\ swap_chain_framebuffers = create_framebuffers(swap_chain_image_views)
    /\ command_buffers = [i \in Slots |-> << >>]
    /\ image_available_semaphores = [i \in Slots |-> FALSE]
    /\ render_finished_semaphores = [i \in Slots |-> NoImage]
    /\ live = AllResources
    /\ teardown = << >>
    /\ cycle = NewCycle(0)
    /\ upload = NoUpload
    /\ call = NoCall
    /\ build \in Builds

\* ------------------------------------------------------- the event loop
\* entry of draw_frame
draw_frame ==
    /\ pc' = "wait_fence"
    /\ cycle' = NewCycle(current_frame)

\* WindowEvent::Resized(size)
EvResizedMut5(w, h) ==
    /\ pc = "loop"
    /\ width' = w
    /\ height' = h
    /\ framebuffer_resized' = TRUE
    /\ draw_frame
    /\ UNCHANGED << rc_ret, exiting, current_frame, sync, image_index, chain >>
    /\ UNCHANGED << startup, command_buffers, render_target, semaphores >>

EvResizedMut8(w, h) ==
    /\ pc = "loop"
    /\ width' = w
    /\ height' = h
    /\ IF w > 0 /\ h > 0
          THEN framebuffer_resized' = TRUE /\ draw_frame
          ELSE UNCHANGED << framebuffer_resized, pc, cycle >>
    /\ UNCHANGED << rc_ret, exiting, current_frame, sync, image_index, chain >>
    /\ UNCHANGED << startup, command_buffers, render_target, semaphores >>

EvResized(w, h) ==
    /\ pc = "loop"
    /\ width' = w
    /\ height' = h
    /\ framebuffer_resized' = TRUE
    /\ IF w > 0 /\ h > 0
          THEN draw_frame
          ELSE UNCHANGED << pc, cycle >>
    /\ UNCHANGED << rc_ret, exiting, current_frame, sync, image_index, chain >>
    /\ UNCHANGED << startup, command_buffers, render_target, semaphores >>

\* WindowEvent::CloseRequested
EvCloseRequestedMut12 ==
    /\ pc = "loop"
    /\ ~exiting
    /\ exiting' = TRUE
    /\ live' = {}
    /\ UNCHANGED << pc, rc_ret, window, framebuffer_resized, current_frame,
                    sync, image_index, swap_chain_images,
                    swap_chain_image_views, swap_chain_framebuffers,
                    backend_image_count, prev_image_count, teardown, cycle >>
    /\ UNCHANGED << startup, command_buffers, render_target, semaphores >>

EvCloseRequested ==
    /\ pc = "loop"
    /\ ~exiting
    /\ exiting' = TRUE
    /\ UNCHANGED << pc, rc_ret, window, framebuffer_resized, current_frame,
                    sync, image_index, chain, cycle >>
    /\ UNCHANGED << startup, command_buffers, render_target, semaphores >>

\* any other event (the `_` arm)
EvOther ==
    /\ pc = "loop"
    /\ IF width > 0 /\ height > 0
          THEN draw_frame
          ELSE UNCHANGED << pc, cycle >>
    /\ UNCHANGED << rc_ret, exiting, window, framebuffer_resized,
                    current_frame, sync, image_index, chain >>
    /\ UNCHANGED << startup, command_buffers, render_target, semaphores >>

\* Event::LoopDestroyed, delivered once after ControlFlow::Exit
EvLoopDestroyed ==
    /\ pc = "loop"
    /\ exiting
    /\ pc' = "ld_wait_idle"
    /\ UNCHANGED << rc_ret, exiting, window, framebuffer_resized,
                    current_frame, sync, image_index, chain, cycle >>
    /\ UNCHANGED << startup, command_buffers, render_target, semaphores >>


\* ------------------------------------------------------------- draw_frame
\* wait_for_fences(in_flight_fences[current_frame], true, u64::MAX)
WaitForFencesMut1 ==
    /\ pc = "wait_fence"
    /\ pc' = "acquire"
    /\ cycle' = [cycle EXCEPT !.fence_observed = in_flight_fences[current_frame]]
    /\ UNCHANGED << rc_ret, exiting, window, framebuffer_resized,
                    current_frame, sync, image_index, chain >>
    /\ UNCHANGED << startup, command_buffers, render_target, semaphores >>

WaitForFencesMut25 ==
    /\ pc = "wait_fence"
    /\ in_flight_fences[current_frame]
    /\ in_flight_fences' = [in_flight_fences EXCEPT ![current_frame] = FALSE]
    /\ pc' = "acquire"
    /\ cycle' = [cycle EXCEPT !.fence_observed = TRUE]
    /\ UNCHANGED << rc_ret, exiting, window, framebuffer_resized,
                    current_frame, inflight, image_index, chain >>
    /\ UNCHANGED << startup, command_buffers, render_target, semaphores >>

WaitForFences ==
    /\ pc = "wait_fence"
    /\ in_flight_fences[current_frame]
    /\ pc' = "acquire"
    /\ cycle' = [cycle EXCEPT !.fence_observed = TRUE]
    /\ UNCHANGED << rc_ret, exiting, window, framebuffer_resized,
                    current_frame, sync, image_index, chain >>
    /\ UNCHANGED << startup, command_buffers, render_target, semaphores >>

\* entry of recreate_swap_chain, returning to `ret` when it is done
recreate_swap_chain(ret, c) ==
    /\ pc' = "rc_wait_idle"
    /\ rc_ret' = ret
    /\ cycle' = [c EXCEPT !.recreates = @ + 1]

\* acquire_next_image and the match on its result
AcquireNextImageMut2(result, idx) ==
    /\ pc = "acquire"
    /\ IsOk(result) =>
          /\ idx < Len(swap_chain_images)
          /\ \A i \in Slots : render_finished_semaphores[i] # idx
    /\ image_available_semaphores' =
          IF IsOk(result)
             THEN [image_available_semaphores EXCEPT ![current_frame] = TRUE]
             ELSE image_available_semaphores
    /\ IF IsOk(result)
          THEN /\ image_index' = idx
               /\ pc' = "reset_fence"
               /\ cycle' = [cycle EXCEPT !.acq = result]
               /\ UNCHANGED << rc_ret, in_flight_fences >>
          ELSE IF result = "ERROR_OUT_OF_DATE_KHR"
          THEN /\ in_flight_fences' = [in_flight_fences EXCEPT ![current_frame] = FALSE]
               /\ recreate_swap_chain("loop", [cycle EXCEPT !.acq = result, !.fence_reset = TRUE])
               /\ UNCHANGED image_index
          ELSE /\ pc' = "fatal"
               /\ cycle' = [cycle EXCEPT !.acq = result]
               /\ UNCHANGED << rc_ret, image_index, in_flight_fences >>
    /\ UNCHANGED << exiting, window, framebuffer_resized, current_frame,
                    inflight, chain >>
    /\ UNCHANGED << startup, command_buffers, render_target, render_finished_semaphores >>

AcquireNextImageMut10(result, idx) ==
    /\ pc = "acquire"
    /\ IsOk(result) =>
          /\ idx < Len(swap_chain_images)
          /\ \A i \in Slots : render_finished_semaphores[i] # idx
    /\ image_available_semaphores' =
          IF IsOk(result)
             THEN [image_available_semaphores EXCEPT ![current_frame] = TRUE]
             ELSE image_available_semaphores
    /\ IF result = "SUCCESS"
          THEN /\ image_index' = idx
               /\ pc' = "reset_fence"
               /\ cycle' = [cycle EXCEPT !.acq = result]
               /\ UNCHANGED rc_ret
          ELSE IF result \in {"SUBOPTIMAL_KHR", "ERROR_OUT_OF_DATE_KHR"}
          THEN /\ recreate_swap_chain("loop", [cycle EXCEPT !.acq = result])
               /\ UNCHANGED image_index
          ELSE /\ pc' = "fatal"
               /\ cycle' = [cycle EXCEPT !.acq = result]
               /\ UNCHANGED << rc_ret, image_index >>
    /\ UNCHANGED << exiting, window, framebuffer_resized, current_frame,
                    sync, chain >>
    /\ UNCHANGED << startup, command_buffers, render_target, render_finished_semaphores >>

AcquireNextImageMut9(result, idx) ==
    /\ pc = "acquire"
    /\ IsOk(result) =>
          /\ idx < Len(swap_chain_images)
          /\ \A i \in Slots : render_finished_semaphores[i] # idx
    /\ image_available_semaphores' =
          IF IsOk(result)
             THEN [image_available_semaphores EXCEPT ![current_frame] = TRUE]
             ELSE image_available_semaphores
    /\ IF IsOk(result)
          THEN /\ image_index' = idx
               /\ pc' = "reset_fence"
               /\ cycle' = [cycle EXCEPT !.acq = result]
               /\ UNCHANGED rc_ret
          ELSE /\ recreate_swap_chain("loop", [cycle EXCEPT !.acq = result])
               /\ UNCHANGED image_index
    /\ UNCHANGED << exiting, window, framebuffer_resized, current_frame,
                    sync, chain >>
    /\ UNCHANGED << startup, command_buffers, render_target, render_finished_semaphores >>

AcquireNextImage(result, idx) ==
    /\ pc = "acquire"
    /\ IsOk(result) =>
          /\ idx < Len(swap_chain_images)
          /\ \A i \in Slots : render_finished_semaphores[i] # idx
    /\ image_available_semaphores' =
          IF IsOk(result)
             THEN [image_available_semaphores EXCEPT ![current_frame] = TRUE]
             ELSE image_available_semaphores
    /\ IF IsOk(result)
          THEN /\ image_index' = idx
               /\ pc' = "reset_fence"
               /\ cycle' = [cycle EXCEPT !.acq = result]
               /\ UNCHANGED rc_ret
          ELSE IF ~AcquirePanics(result)
          THEN /\ recreate_swap_chain("loop", [cycle EXCEPT !.acq = result])
               /\ UNCHANGED image_index
          ELSE /\ pc' = "fatal"
               /\ cycle' = [cycle EXCEPT !.acq = result]
               /\ UNCHANGED << rc_ret, image_index >>
    /\ UNCHANGED << exiting, window, framebuffer_resized, current_frame,
                    sync, chain >>
    /\ UNCHANGED << startup, command_buffers, render_target, render_finished_semaphores >>

\* reset_fences(in_flight_fences[current_frame])
ResetFences ==
    /\ pc = "reset_fence"
    /\ in_flight_fences' = [in_flight_fences EXCEPT ![current_frame] = FALSE]
    /\ pc' = "reset_cb"
    /\ cycle' = [cycle EXCEPT !.fence_reset = TRUE]
    /\ UNCHANGED << rc_ret, exiting, window, framebuffer_resized,
                    current_frame, inflight, image_index, chain >>
    /\ UNCHANGED << startup, command_buffers, render_target, semaphores >>

\* reset_command_buffer(command_buffers[current_frame])
ResetCommandBuffer ==
    /\ pc = "reset_cb"
    /\ pc' = "record"
    /\ cycle' = [cycle EXCEPT !.cb_reset = TRUE]
    /\ UNCHANGED << rc_ret, exiting, window, framebuffer_resized,
                    current_frame, sync, image_index, chain >>
    /\ UNCHANGED << startup, render_target, semaphores >>
    /\ command_buffers' = [command_buffers EXCEPT ![current_frame] = << >>]

\* record_command_buffer(image_index): targets swap_chain_framebuffers[image_index]
\* and binds descriptor_sets[current_frame]
RecordCommandBufferMut26 ==
    /\ pc = "record"
    /\ image_index + 1 \in DOMAIN swap_chain_framebuffers
    /\ pc' = "update_ubo"
    /\ cycle' = [cycle EXCEPT !.recorded = TRUE]
    /\ command_buffers' = [command_buffers EXCEPT ![current_frame] =
                              << descriptor_sets[image_index % MAX_FRAMES_IN_FLIGHT] >>]
    /\ UNCHANGED << rc_ret, exiting, window, framebuffer_resized,
                    current_frame, sync, image_index, chain >>
    /\ UNCHANGED << startup, render_target, semaphores >>

RecordCommandBuffer ==
    /\ pc = "record"
    /\ image_index + 1 \in DOMAIN swap_chain_framebuffers
    /\ pc' = "update_ubo"
    /\ cycle' = [cycle EXCEPT !.recorded = TRUE]
    /\ command_buffers' = [command_buffers EXCEPT ![current_frame] =
                              << descriptor_sets[current_frame] >>]
    /\ UNCHANGED << rc_ret, exiting, window, framebuffer_resized,
                    current_frame, sync, image_index, chain >>
    /\ UNCHANGED << startup, render_target, semaphores >>

\* update_uniform_buffer(current_frame)
UpdateUniformBuffer ==
    /\ pc = "update_ubo"
    /\ pc' = "submit"
    /\ cycle' = [cycle EXCEPT !.ubo_written = TRUE, !.ubo_slot = current_frame]
    /\ UNCHANGED << rc_ret, exiting, window, framebuffer_resized,
                    current_frame, sync, image_index, chain >>
    /\ UNCHANGED << startup, command_buffers, render_target, semaphores >>

\* queue_submit(graphics_queue, submit_info, in_flight_fences[current_frame])
QueueSubmitMut30 ==
    /\ pc = "submit"
    /\ pc' = "present"
    /\ cycle' = [cycle EXCEPT !.submitted = TRUE]
    /\ UNCHANGED << rc_ret, exiting, window, framebuffer_resized,
                    current_frame, in_flight_fences, inflight, image_index, chain >>
    /\ UNCHANGED << startup, command_buffers, render_target, semaphores >>

\* queue_submit of submit_info(current_frame): whatever the queue reads
\* behind the pointers, the fence it signals on completion is the slot's
QueueSubmit ==
    /\ pc = "submit"
    /\ submit_info(current_frame).fence = << "in_flight", current_frame >>
    /\ inflight' = [inflight EXCEPT ![current_frame] = TRUE]
    /\ pc' = "present"
    /\ cycle' = [cycle EXCEPT !.submitted = TRUE]
    /\ UNCHANGED << rc_ret, exiting, window, framebuffer_resized,
                    current_frame, in_flight_fences, image_index, chain >>
    /\ UNCHANGED << startup, command_buffers, render_target, semaphores >>

\* queue_present and the match on its result
QueuePresent(result) ==
    /\ pc = "present"
    /\ LET c == [cycle EXCEPT !.presented = TRUE, !.pres = result,
                              !.resize_pending = framebuffer_resized]
       IN  IF PresentRecreates(result, framebuffer_resized)
              THEN /\ recreate_swap_chain("advance", c)
                   /\ framebuffer_resized' =
                         IF IsOk(result) THEN FALSE ELSE framebuffer_resized
              ELSE IF PresentPanics(result)
              THEN /\ pc' = "fatal"
                   /\ cycle' = c
                   /\ UNCHANGED << rc_ret, framebuffer_resized >>
              ELSE /\ pc' = "advance"
                   /\ cycle' = c
                   /\ UNCHANGED << rc_ret, framebuffer_resized >>
    /\ UNCHANGED << exiting, window, current_frame, sync, image_index, chain >>
    /\ UNCHANGED << startup, command_buffers, render_target, image_available_semaphores >>
    /\ render_finished_semaphores' =
          IF present_info(current_frame, image_index).wait_semaphore
                = << "render_finished", current_frame >>
             THEN [render_finished_semaphores EXCEPT ![current_frame] = image_index]
             ELSE render_finished_semaphores

\* current_frame = (current_frame + 1) % MAX_FRAMES_IN_FLIGHT, then return
AdvanceMut6 ==
    /\ pc = "advance"
    /\ current_frame' = IF cycle.recreates > 0
                           THEN current_frame
                           ELSE (current_frame + 1) % MAX_FRAMES_IN_FLIGHT
    /\ pc' = "loop"
    /\ cycle' = [cycle EXCEPT !.advanced = TRUE]
    /\ UNCHANGED << rc_ret, exiting, window, framebuffer_resized, sync,
                    image_index, chain >>
    /\ UNCHANGED << startup, command_buffers, render_target, semaphores >>

Advance ==
    /\ pc = "advance"
    /\ current_frame' = (current_frame + 1) % MAX_FRAMES_IN_FLIGHT
    /\ pc' = "loop"
    /\ cycle' = [cycle EXCEPT !.advanced = TRUE]
    /\ UNCHANGED << rc_ret, exiting, window, framebuffer_resized, sync,
                    image_index, chain >>
    /\ UNCHANGED << startup, command_buffers, render_target, semaphores >>

\* ---------------------------------------------------- recreate_swap_chain
\* device_wait_idle() at the head of recreate_swap_chain
RcDeviceWaitIdleMut3 ==
    /\ pc = "rc_wait_idle"
    /\ pc' = "rc_cleanup"
    /\ UNCHANGED << rc_ret, exiting, window, framebuffer_resized,
                    current_frame, sync, image_index, chain, cycle >>
    /\ UNCHANGED << startup, command_buffers, render_target, semaphores >>

RcDeviceWaitIdle ==
    /\ pc = "rc_wait_idle"
    /\ \A i \in Slots : ~inflight[i]
    /\ \A i \in Slots : render_finished_semaphores[i] = NoImage
    /\ pc' = "rc_cleanup"
    /\ UNCHANGED << rc_ret, exiting, window, framebuffer_resized,
                    current_frame, sync, image_index, chain, cycle >>
    /\ UNCHANGED << startup, command_buffers, render_target, semaphores >>

\* cleanup_swap_chain: framebuffers, image views and the swapchain are
\* destroyed; the vectors keep the dead handles until they are reassigned
cleanup_swap_chain == live \ SwapChainResources

\* the order of the destroy calls in cleanup_swap_chain
cleanup_swap_chain_orderMut24 == << "swap_chain", "image_views", "framebuffers" >>

cleanup_swap_chain_order == << "framebuffers", "image_views", "swap_chain" >>

\* the order of the destroy calls in cleanup() of graphicspipeline.rs
cleanup_order_graphicspipeline ==
    << "graphics_pipeline", "pipeline_layout", "render_pass", "image_views",
       "swap_chain", "device", "debug_messenger", "surface", "instance" >>

RcCleanupSwapChainMut23 ==
    /\ pc = "rc_cleanup"
    /\ live' = cleanup_swap_chain
    /\ teardown' = cleanup_swap_chain_order
    /\ current_frame' = 0
    /\ pc' = "rc_create_swap_chain"
    /\ UNCHANGED << rc_ret, exiting, window, framebuffer_resized,
                    sync, image_index, swap_chain_images,
                    swap_chain_image_views, swap_chain_framebuffers,
                    backend_image_count, prev_image_count, cycle >>
    /\ UNCHANGED << startup, command_buffers, render_target, semaphores >>

RcCleanupSwapChain ==
    /\ pc = "rc_cleanup"
    /\ live' = cleanup_swap_chain
    /\ teardown' = cleanup_swap_chain_order
    /\ pc' = "rc_create_swap_chain"
    /\ UNCHANGED << rc_ret, exiting, window, framebuffer_resized,
                    current_frame, sync, image_index, swap_chain_images,
                    swap_chain_image_views, swap_chain_framebuffers,
                    backend_image_count, prev_image_count, cycle >>
    /\ UNCHANGED << startup, command_buffers, render_target, semaphores >>

\* create_swap_chain: the backend builds a swapchain of n images
RcCreateSwapChain(n, formats) ==
    /\ pc = "rc_create_swap_chain"
    /\ swap_chain_images' = get_swapchain_images(n)
    /\ backend_image_count' = n
    /\ prev_image_count' = backend_image_count
    /\ live' = live \cup {"swap_chain"}
    /\ pc' = "rc_create_image_views"
    /\ UNCHANGED << rc_ret, exiting, window, framebuffer_resized,
                    current_frame, sync, image_index, swap_chain_image_views,
                    swap_chain_framebuffers, teardown, cycle >>
    /\ UNCHANGED << startup, command_buffers, render_pass, semaphores >>
    /\ swap_chain_image_format' = choose_swap_surface_format(formats).format

RcCreateImageViews ==
    /\ pc = "rc_create_image_views"
    /\ swap_chain_image_views' =
          create_image_views(swap_chain_images, swap_chain_image_format)
    /\ live' = live \cup {"image_views"}
    /\ pc' = "rc_create_framebuffers"
    /\ UNCHANGED << rc_ret, exiting, window, framebuffer_resized,
                    current_frame, sync, image_index, swap_chain_images,
                    swap_chain_framebuffers, backend_image_count,
                    prev_image_count, teardown, cycle >>
    /\ UNCHANGED << startup, command_buffers, render_target, semaphores >>

\* the last statement of recreate_swap_chain, then its return
RcCreateFramebuffersMut4 ==
    /\ pc = "rc_create_framebuffers"
    /\ live' = live \cup {"framebuffers"}
    /\ pc' = rc_ret
    /\ UNCHANGED << rc_ret, exiting, window, framebuffer_resized,
                    current_frame, sync, image_index, swap_chain_images,
                    swap_chain_image_views, swap_chain_framebuffers,
                    backend_image_count, prev_image_count, teardown, cycle >>
    /\ UNCHANGED << startup, command_buffers, render_target, semaphores >>

RcCreateFramebuffers ==
    /\ pc = "rc_create_framebuffers"
    /\ swap_chain_framebuffers' = create_framebuffers(swap_chain_image_views)
    /\ live' = live \cup {"framebuffers"}
    /\ pc' = rc_ret
    /\ UNCHANGED << rc_ret, exiting, window, framebuffer_resized,
                    current_frame, sync, image_index, swap_chain_images,
                    swap_chain_image_views, backend_image_count,
                    prev_image_count, teardown, cycle >>
    /\ UNCHANGED << startup, command_buffers, render_target, semaphores >>

\* ---------------------------------------------------------- final teardown
\* device_wait_idle() in the LoopDestroyed arm
LdDeviceWaitIdle ==
    /\ pc = "ld_wait_idle"
    /\ \A i \in Slots : ~inflight[i]
    /\ \A i \in Slots : render_finished_semaphores[i] = NoImage
    /\ pc' = "cleanup"
    /\ UNCHANGED << rc_ret, exiting, window, framebuffer_resized,
                    current_frame, sync, image_index, chain, cycle >>
    /\ UNCHANGED << startup, command_buffers, render_target, semaphores >>

\* the order of the destroy calls in cleanup()
cleanup_order ==
    cleanup_swap_chain_order \o
    << "uniform_buffers", "descriptor_pool", "descriptor_set_layout",
       "index_buffer", "vertex_buffer", "graphics_pipeline", "pipeline_layout",
       "render_pass", "sync_objects", "command_pool", "device",
       "debug_messenger", "surface", "instance" >>

\* cleanup(): cleanup_swap_chain, then everything down to the instance
Cleanup ==
    /\ pc = "cleanup"
    /\ live' = live \ {cleanup_order[k] : k \in DOMAIN cleanup_order}
    /\ teardown' = cleanup_order
    /\ pc' = "done"
    /\ UNCHANGED << rc_ret, exiting, window, framebuffer_resized,
                    current_frame, sync, image_index, swap_chain_images,
                    swap_chain_image_views, swap_chain_framebuffers,
                    backend_image_count, prev_image_count, cycle >>
    /\ UNCHANGED << startup, command_buffers, render_target, semaphores >>

\* -------------------------------------------------------------------- GPU
\* the graphics queue finishes the submission of slot i and signals its fence
GpuComplete(i) ==
    /\ inflight[i]
    /\ inflight' = [inflight EXCEPT ![i] = FALSE]
    /\ in_flight_fences' = [in_flight_fences EXCEPT ![i] = TRUE]
    /\ UNCHANGED << pc, rc_ret, exiting, window, framebuffer_resized,
                    current_frame, image_index, chain, cycle >>
    /\ UNCHANGED << startup, command_buffers, render_target, render_finished_semaphores >>
    /\ image_available_semaphores' =
          IF submit_info(i).wait_semaphore = << "image_available", i >>
             THEN [image_available_semaphores EXCEPT ![i] = FALSE]
             ELSE image_available_semaphores

\* the present queue executes the semaphore wait of the present operation
\* queued for slot i, once the submission of slot i has signaled it
PresentWait(i) ==
    /\ render_finished_semaphores[i] # NoImage
    /\ ~inflight[i]
    /\ render_finished_semaphores' = [render_finished_semaphores EXCEPT ![i] = NoImage]
    /\ UNCHANGED << pc, rc_ret, exiting, window, framebuffer_resized,
                    current_frame, sync, image_index, chain, cycle >>
    /\ UNCHANGED << startup, command_buffers, render_target, image_available_semaphores >>

\* ------------------------------------------------------------------- Next
Next ==
    \/ \E w \in Dims, h \in Dims : EvResized(w, h)
    \/ EvCloseRequested
    \/ EvOther
    \/ EvLoopDestroyed
    \/ WaitForFences
    \/ \E result \in VkResults, idx \in 0 .. (MaxImages - 1) : AcquireNextImage(result, idx)
    \/ ResetFences
    \/ ResetCommandBuffer
    \/ RecordCommandBuffer
    \/ UpdateUniformBuffer
    \/ QueueSubmit
    \/ \E result \in VkResults : QueuePresent(result)
    \/ Advance
    \/ RcDeviceWaitIdle
    \/ RcCleanupSwapChain
    \/ \E n \in ImageCounts, formats \in SurfaceFormatLists : RcCreateSwapChain(n, formats)
    \/ RcCreateImageViews
    \/ RcCreateFramebuffers
    \/ LdDeviceWaitIdle
    \/ Cleanup
    \/ \E i \in Slots : GpuComplete(i)
    \/ \E i \in Slots : PresentWait(i)

Spec == Init /\ [][Next]_vars

\* the steps of the one thread that runs the handlers, once it is inside
\* draw_frame or the LoopDestroyed handler
CpuStep ==
    \/ WaitForFences
    \/ \E result \in VkResults, idx \in 0 .. (MaxImages - 1) : AcquireNextImage(result, idx)
    \/ ResetFences
    \/ ResetCommandBuffer
    \/ RecordCommandBuffer
    \/ UpdateUniformBuffer
    \/ QueueSubmit
    \/ \E result \in VkResults : QueuePresent(result)
    \/ Advance
    \/ RcDeviceWaitIdle
    \/ RcCleanupSwapChain
    \/ \E n \in ImageCounts, formats \in SurfaceFormatLists : RcCreateSwapChain(n, formats)
    \/ RcCreateImageViews
    \/ RcCreateFramebuffers
    \/ LdDeviceWaitIdle
    \/ Cleanup

\* The thread keeps running; ControlFlow::Poll keeps the loop delivering
\* events that reach the `_` arm; the GPU completes every submission and the
\* presentation engine every queued present; an acquire that is attempted
\* again and again does not report out-of-date (or fail) every time.
Fairness ==
    /\ WF_vars(CpuStep)
    /\ WF_vars(EvOther)
    /\ \A i \in Slots : WF_vars(GpuComplete(i))
    /\ \A i \in Slots : WF_vars(PresentWait(i))
    /\ SF_vars(\E idx \in 0 .. (MaxImages - 1) : AcquireNextImage("SUCCESS", idx))

\* The environment of the progress check: the window is minimized or at its
\* largest size, and the backend hands out its smallest or its largest
\* number of images.
FairEnv(w, h, n) == w \in {0, MaxDim} /\ h \in {0, MaxDim} /\ n \in {1, MaxImages}

InitFair == Init /\ FairEnv(width, height, backend_image_count)

NextFair == Next /\ FairEnv(width', height', backend_image_count')

SpecFair == InitFair /\ [][NextFair]_vars /\ Fairness

\* ================================================= startup: buffer upload
\* create_vertex_buffer / create_index_buffer: staging buffer, copy_buffer,
\* release of the staging buffer.  A buffer's content is a sequence of bytes;
\* Uninit stands for a byte of freshly allocated memory.
MaxUploadLen == 3
Bytes == 0 .. 1
Uninit == 0 - 1
UploadInputs == UNION {[1 .. n -> Bytes] : n \in 1 .. MaxUploadLen}
Usages == {"VERTEX_BUFFER", "INDEX_BUFFER"}
fresh_memory(size) == [k \in 1 .. size |-> Uninit]

\* the frame loop has not started while startup runs
StartupFrame ==
    /\ pc = "startup"
    /\ rc_ret = "loop"
    /\ exiting = FALSE
    /\ width = 1
    /\ height = 1
    /\ framebuffer_resized = FALSE
    /\ current_frame = 0
    /\ in_flight_fences = [i \in Slots |-> TRUE]
    /\ inflight = [i \in Slots |-> FALSE]
    /\ image_index = 0
    /\ swap_chain_images = get_swapchain_images(1)
    /\ backend_image_count = 1
    /\ prev_image_count = 1
    /\ swap_chain_image_format = "B8G8R8A8_SRGB"
    /\ swap_chain_image_views =
          create_image_views(swap_chain_images, swap_chain_image_format)
    /\ render_pass = create_render_pass(swap_chain_image_format)
    /\ swap_chain_framebuffers = create_framebuffers(swap_chain_image_views)
    /\ command_buffers = [i \in Slots |-> << >>]
    /\ image_available_semaphores = [i \in Slots |-> FALSE]
    /\ render_finished_semaphores = [i \in Slots |-> NoImage]
    /\ live = AllResources
    /\ teardown = << >>
    /\ cycle = NewCycle(0)
    /\ build \in Builds

\* entry of create_vertex_buffer / create_index_buffer with its source bytes
InitUpload ==
    /\ StartupFrame
    /\ call = NoCall
    /\ \E bytes \in UploadInputs, usage \in Usages :
          upload = [ pc |-> "create_staging", usage |-> usage, bytes |-> bytes,
                     staging |-> "none", staging_memory |-> "none",
                     staging_data |-> << >>,
                     dst |-> "none", dst_data |-> << >>,
                     cb |-> "none",
                     region |-> [src_offset |-> 0, dst_offset |-> 0, size |-> 0],
                     submits |-> 0, pending |-> FALSE, copied |-> FALSE,
                     idle_observed |-> FALSE ]

\* buffer_size of the upload
buffer_size(bytes) == Len(bytes)

\* create_buffer(buffer_size, TRANSFER_SRC, HOST_VISIBLE | HOST_COHERENT)
UpCreateStaging ==
    /\ upload.pc = "create_staging"
    /\ upload' = [upload EXCEPT !.pc = "map_write",
                                !.staging = "live", !.staging_memory = "live",
                                !.staging_data = fresh_memory(buffer_size(upload.bytes))]
    /\ UNCHANGED << frame_loop, call >>

\* map_memory(0, buffer_size), write of the whole source, unmap_memory
map_writeMut14(data, bytes) ==
    [k \in DOMAIN data |-> IF k < Len(bytes) THEN bytes[k] ELSE data[k]]

map_write(data, bytes) ==
    [k \in DOMAIN data |-> IF k <= Len(bytes) THEN bytes[k] ELSE data[k]]

UpMapWrite ==
    /\ upload.pc = "map_write"
    /\ upload' = [upload EXCEPT !.pc = "create_dst",
                                !.staging_data = map_write(upload.staging_data, upload.bytes)]
    /\ UNCHANGED << frame_loop, call >>

\* create_buffer(buffer_size, TRANSFER_DST | usage, DEVICE_LOCAL)
UpCreateDst ==
    /\ upload.pc = "create_dst"
    /\ upload' = [upload EXCEPT !.pc = "alloc_cb", !.dst = "live",
                                !.dst_data = fresh_memory(buffer_size(upload.bytes))]
    /\ UNCHANGED << frame_loop, call >>

\* copy_buffer: allocate_command_buffers
UpAllocCommandBuffer ==
    /\ upload.pc = "alloc_cb"
    /\ upload' = [upload EXCEPT !.pc = "record", !.cb = "live"]
    /\ UNCHANGED << frame_loop, call >>

\* copy_buffer: the BufferCopy region and begin / cmd_copy_buffer / end
copy_region(size) == [src_offset |-> 0, dst_offset |-> 0, size |-> size]

UpRecordCopy ==
    /\ upload.pc = "record"
    /\ upload' = [upload EXCEPT !.pc = "submit",
                                !.region = copy_region(buffer_size(upload.bytes))]
    /\ UNCHANGED << frame_loop, call >>

\* copy_buffer: queue_submit(graphics_queue, submit_info, Fence::null())
UpQueueSubmit ==
    /\ upload.pc = "submit"
    /\ upload' = [upload EXCEPT !.pc = "wait_idle", !.submits = @ + 1,
                                !.pending = TRUE]
    /\ UNCHANGED << frame_loop, call >>

\* what vkCmdCopyBuffer writes into dst when the GPU executes it
cmd_copy_buffer(src, dst, region) ==
    [k \in DOMAIN dst |->
        IF /\ k - 1 >= region.dst_offset
           /\ k - 1 < region.dst_offset + region.size
           /\ (k - region.dst_offset + region.src_offset) \in DOMAIN src
           THEN src[k - region.dst_offset + region.src_offset]
           ELSE dst[k]]

\* the graphics queue executes the copy; reading a freed staging buffer or a
\* freed command buffer is undefined: the destination may then hold anything
UpGpuCopy ==
    /\ upload.pending
    /\ IF upload.staging = "live" /\ upload.staging_memory = "live" /\ upload.cb = "live"
          THEN upload' = [upload EXCEPT !.pending = FALSE, !.copied = TRUE,
                             !.dst_data = cmd_copy_buffer(upload.staging_data,
                                                          upload.dst_data, upload.region)]
          ELSE \E junk \in [DOMAIN upload.dst_data -> Bytes \cup {Uninit}] :
                  upload' = [upload EXCEPT !.pending = FALSE, !.copied = TRUE,
                                           !.dst_data = junk]
    /\ UNCHANGED << frame_loop, call >>

\* copy_buffer: queue_wait_idle(graphics_queue)
UpQueueWaitIdleMut13 ==
    /\ upload.pc = "wait_idle"
    /\ upload' = [upload EXCEPT !.pc = "free_cb", !.idle_observed = ~upload.pending]
    /\ UNCHANGED << frame_loop, call >>

UpQueueWaitIdle ==
    /\ upload.pc = "wait_idle"
    /\ ~upload.pending
    /\ upload' = [upload EXCEPT !.pc = "free_cb", !.idle_observed = TRUE]
    /\ UNCHANGED << frame_loop, call >>

\* copy_buffer: free_command_buffers, then return
UpFreeCommandBuffer ==
    /\ upload.pc = "free_cb"
    /\ upload' = [upload EXCEPT !.pc = "destroy_staging", !.cb = "freed"]
    /\ UNCHANGED << frame_loop, call >>

\* destroy_buffer(staging_buffer)
UpDestroyStaging ==
    /\ upload.pc = "destroy_staging"
    /\ upload' = [upload EXCEPT !.pc = "free_staging", !.staging = "freed"]
    /\ UNCHANGED << frame_loop, call >>

\* free_memory(staging_buffer_memory), then return (buffer, buffer_memory)
UpFreeStagingMemory ==
    /\ upload.pc = "free_staging"
    /\ upload' = [upload EXCEPT !.pc = "returned", !.staging_memory = "freed"]
    /\ UNCHANGED << frame_loop, call >>

NextUpload ==
    \/ UpCreateStaging
    \/ UpMapWrite
    \/ UpCreateDst
    \/ UpAllocCommandBuffer
    \/ UpRecordCopy
    \/ UpQueueSubmit
    \/ UpGpuCopy
    \/ UpQueueWaitIdle
    \/ UpFreeCommandBuffer
    \/ UpDestroyStaging
    \/ UpFreeStagingMemory

SpecUpload == InitUpload /\ [][NextUpload]_vars

\* ============================================ startup: swapchain choices
\* The helper functions of create_swap_chain and find_memory_type.  A call
\* is the record call: the function, its arguments and, once it has run,
\* its result.
MaxCount == 3
MaxFamily == 2
MaxFormats == 3
MaxModes == 3
MaxExtent == 2
MaxTypes == 2
MaxFlags == 7
\* a u32 is modelled as a word of WordBits bits (TLC's integers end at
\* 2^31 - 1); U32_MAX is u32::MAX, a usize is one word or two
WordBits == 16
U32 == 2 ^ WordBits
U32_MAX == U32 - 1

\* create_swap_chain: image_count from the surface capabilities
\* (the addition panics on overflow where overflow checks are compiled in,
\* and wraps where they are not)
image_count(caps, profile) ==
    IF /\ caps.max_image_count > 0
       /\ caps.min_image_count > caps.max_image_count
       THEN [pc |-> "returned", result |-> caps.max_image_count]
    ELSE IF profile = "debug" /\ caps.min_image_count + 1 > U32_MAX
       THEN [pc |-> "panicked"]
       ELSE [pc |-> "returned", result |-> (caps.min_image_count + 1) % U32]

\* capabilities a surface reports: max_image_count is 0 (no limit) or at
\* least min_image_count
ImageCountInputs ==
    UNION { { [fn |-> "image_count", pc |-> "called",
               args |-> [min_image_count |-> lo, max_image_count |-> hi]] :
                 hi \in {0} \cup (lo .. MaxCount) } : lo \in 1 .. MaxCount }

\* the memory of a usize as 32-bit words, by pointer width and byte order
Targets == {"32", "64le", "64be"}
usize_words(v, target) ==
    IF target = "32" THEN << v % U32 >>
    ELSE IF target = "64le" THEN << v % U32, v \div U32 >>
    ELSE << v \div U32, v % U32 >>

\* queue_family_indices.as_ptr() as *const u32: the Vec<usize> as u32 words
RECURSIVE as_u32_words(_, _)
as_u32_words(vec, target) ==
    IF vec = << >> THEN << >>
    ELSE usize_words(Head(vec), target) \o as_u32_words(Tail(vec), target)

\* create_swap_chain: the sharing fields of SwapchainCreateInfoKHR, the
\* index list as the backend reads it (queue_family_index_count u32 values)
swapchain_sharing(graphics_queue_index, present_mode_index, target) ==
    LET queue_index_equivalent == graphics_queue_index = present_mode_index
        queue_family_indices == << graphics_queue_index, present_mode_index >>
        count == IF queue_index_equivalent THEN 0 ELSE 2
    IN  [ image_sharing_mode |->
              IF queue_index_equivalent THEN "EXCLUSIVE" ELSE "CONCURRENT",
          queue_family_index_count |-> count,
          p_queue_family_indices |->
              IF queue_index_equivalent THEN << >>
              ELSE SubSeq(as_u32_words(queue_family_indices, target), 1, count) ]

SharingInputs ==
    { [fn |-> "swapchain_sharing", pc |-> "called",
       args |-> [graphics |-> g, present |-> p, target |-> t]] :
         g \in 0 .. MaxFamily, p \in 0 .. MaxFamily, t \in Targets }

FormatInputs ==
    { [fn |-> "choose_swap_surface_format", pc |-> "called",
       args |-> [formats |-> f]] :
         f \in UNION {[1 .. n -> SurfaceFormats] : n \in 1 .. MaxFormats} }

\* choose_swap_present_mode
PresentModes == {"IMMEDIATE", "MAILBOX", "FIFO", "FIFO_RELAXED"}

choose_swap_present_modeMut18(present_modes) ==
    IF present_modes # << >> /\ Head(present_modes) = "MAILBOX"
       THEN Head(present_modes)
       ELSE "FIFO"

choose_swap_present_mode(present_modes) ==
    LET RECURSIVE scan(_)
        scan(i) ==
            IF i > Len(present_modes) THEN "FIFO"
            ELSE IF present_modes[i] = "MAILBOX" THEN present_modes[i]
            ELSE scan(i + 1)
    IN  scan(1)

PresentModeInputs ==
    { [fn |-> "choose_swap_present_mode", pc |-> "called",
       args |-> [present_modes |-> m]] :
         m \in UNION {[1 .. n -> PresentModes] : n \in 1 .. MaxModes} }

\* u32::clamp(self, min, max); it asserts min <= max and panics otherwise
clamp(v, lo, hi) ==
    IF lo > hi THEN [pc |-> "panicked"]
    ELSE [pc |-> "returned",
          result |-> IF v < lo THEN lo ELSE IF v > hi THEN hi ELSE v]

\* choose_swap_extent
choose_swap_extentMut19(window_size, capabilities) ==
    IF capabilities.current_extent.width # U32_MAX
       THEN [pc |-> "returned", result |-> capabilities.current_extent]
       ELSE [pc |-> "returned",
             result |-> [ width |-> window_size.width,
                          height |-> window_size.height ]]

choose_swap_extent(window_size, capabilities) ==
    IF capabilities.current_extent.width # U32_MAX
       THEN [pc |-> "returned", result |-> capabilities.current_extent]
       ELSE LET w == clamp(window_size.width,
                           capabilities.min_image_extent.width,
                           capabilities.max_image_extent.width)
                h == clamp(window_size.height,
                           capabilities.min_image_extent.height,
                           capabilities.max_image_extent.height)
            IN  IF w.pc = "panicked" \/ h.pc = "panicked"
                   THEN [pc |-> "panicked"]
                   ELSE [pc |-> "returned",
                         result |-> [width |-> w.result, height |-> h.result]]

\* extents a surface reports: a defined current extent or the sentinel pair,
\* and minimum and maximum extents with min <= max in each dimension
Extents(lo, hi) == [width : lo .. hi, height : lo .. hi]
UndefinedExtent == [width |-> U32_MAX, height |-> U32_MAX]
ExtentInputs ==
    { c \in { [fn |-> "choose_swap_extent", pc |-> "called",
               args |-> [window_size |-> w,
                         capabilities |-> [current_extent |-> cur,
                                           min_image_extent |-> lo,
                                           max_image_extent |-> hi]]] :
                 w \in Extents(0, MaxExtent + 1),
                 cur \in Extents(0, MaxExtent) \cup {UndefinedExtent},
                 lo \in Extents(1, MaxExtent),
                 hi \in Extents(1, MaxExtent) } :
        /\ c.args.capabilities.min_image_extent.width
              <= c.args.capabilities.max_image_extent.width
        /\ c.args.capabilities.min_image_extent.height
              <= c.args.capabilities.max_image_extent.height }

\* bitwise and of two unsigned integers
RECURSIVE BitAnd(_, _)
BitAnd(a, b) ==
    IF a = 0 \/ b = 0 THEN 0
    ELSE (a % 2) * (b % 2) + 2 * BitAnd(a \div 2, b \div 2)

\* 1 << i on u32
shl1(i) == (2 ^ i) % U32

\* find_memory_type over the memory types the physical device reports
\* (memory_types[i] of the code is memory_types[i + 1] here)
find_memory_typeMut20(memory_types, type_filter, properties) ==
    LET RECURSIVE scan(_)
        scan(i) ==
            IF i >= Len(memory_types) THEN [pc |-> "panicked"]
            ELSE IF /\ BitAnd(type_filter, shl1(i)) # 0
                    /\ BitAnd(memory_types[i + 1], properties) # 0
                    THEN [pc |-> "returned", result |-> i]
            ELSE scan(i + 1)
    IN  scan(0)

find_memory_type(memory_types, type_filter, properties) ==
    LET RECURSIVE scan(_)
        scan(i) ==
            IF i >= Len(memory_types) THEN [pc |-> "panicked"]
            ELSE IF /\ BitAnd(type_filter, shl1(i)) # 0
                    /\ BitAnd(memory_types[i + 1], properties) = properties
                    THEN [pc |-> "returned", result |-> i]
            ELSE scan(i + 1)
    IN  scan(0)

MemoryTypeInputs ==
    { [fn |-> "find_memory_type", pc |-> "called",
       args |-> [memory_types |-> t, type_filter |-> f, properties |-> p]] :
         t \in UNION {[1 .. n -> 0 .. MaxFlags] : n \in 1 .. MaxTypes},
         f \in 1 .. (2 ^ MaxTypes - 1),
         p \in 1 .. MaxFlags }

\* ------------------------------------------------- pick_physical_device
\* An adapter as the backend describes it: its queue families (queue_flags
\* and whether the family can present to the surface), its device
\* extensions and the surface's formats and present modes on it.
MaxDevices == 2
GRAPHICS == 1
DEVICE_EXTENSIONS == << "VK_KHR_swapchain" >>
QueueFamilies == [queue_flags : 0 .. 3, surface_support : BOOLEAN]
ExtensionNames == {"VK_KHR_swapchain", "VK_KHR_maintenance1"}
Adapters ==
    [ queue_family_properties : UNION {[1 .. n -> QueueFamilies] : n \in 0 .. MaxFamily},
      extension_properties : SUBSET ExtensionNames,
      formats : {<< >>, << [format |-> "B8G8R8A8_SRGB", color_space |-> "SRGB_NONLINEAR"] >>},
      present_modes : {<< >>, << "FIFO" >>} ]

\* find_queue_familes: Iterator::position of the first graphics family and
\* of the first family with surface support; << >> is None, << i >> Some(i)
find_queue_familes(adapter) ==
    LET families == adapter.queue_family_properties
        RECURSIVE graphics(_)
        graphics(i) ==
            IF i >= Len(families) THEN << >>
            ELSE IF BitAnd(families[i + 1].queue_flags, GRAPHICS) = GRAPHICS
                    THEN << i >>
            ELSE graphics(i + 1)
        RECURSIVE present(_)
        present(i) ==
            IF i >= Len(families) THEN << >>
            ELSE IF families[i + 1].surface_support THEN << i >>
            ELSE present(i + 1)
    IN  << graphics(0), present(0) >>

is_some(option) == option # << >>

\* check_device_extension_support: every entry of DEVICE_EXTENSIONS is found
check_device_extension_support(adapter) ==
    LET RECURSIVE scan(_)
        scan(k) ==
            IF k > Len(DEVICE_EXTENSIONS) THEN TRUE
            ELSE IF DEVICE_EXTENSIONS[k] \notin adapter.extension_properties
                    THEN FALSE
            ELSE scan(k + 1)
    IN  scan(1)

is_device_suitableMut21(adapter) ==
    LET indices == find_queue_familes(adapter)
    IN  /\ is_some(indices[1])
        /\ is_some(indices[2])
        /\ check_device_extension_support(adapter)
        /\ adapter.formats # << >>

is_device_suitable(adapter) ==
    LET indices == find_queue_familes(adapter)
    IN  /\ is_some(indices[1])
        /\ is_some(indices[2])
        /\ check_device_extension_support(adapter)
        /\ adapter.formats # << >>
        /\ adapter.present_modes # << >>

\* pick_physical_device: Err for no devices, else the last suitable device
\* (<< k >> is Some(devices[k - 1])), Err if there is none
pick_physical_device(devices) ==
    LET RECURSIVE scan(_, _)
        scan(k, physical_device) ==
            IF k > Len(devices) THEN physical_device
            ELSE IF is_device_suitable(devices[k]) THEN scan(k + 1, << k >>)
            ELSE scan(k + 1, physical_device)
    IN  IF Len(devices) = 0 THEN << >> ELSE scan(1, << >>)

SuitableInputs ==
    { [fn |-> "is_device_suitable", pc |-> "called", args |-> [device |-> a]] :
         a \in Adapters }

\* the device lists pick_physical_device is applied to hold adapters with
\* at most one queue family
PickAdapters ==
    [ queue_family_properties :
          {<< >>} \cup {<< f >> : f \in [queue_flags : {0, GRAPHICS}, surface_support : BOOLEAN]},
      extension_properties : SUBSET {"VK_KHR_swapchain"},
      formats : {<< >>, << [format |-> "B8G8R8A8_SRGB", color_space |-> "SRGB_NONLINEAR"] >>},
      present_modes : {<< >>, << "FIFO" >>} ]
PickInputs ==
    { [fn |-> "pick_physical_device", pc |-> "called", args |-> [devices |-> ds]] :
         ds \in UNION { [1 .. n -> PickAdapters] : n \in 0 .. MaxDevices } }

CallIsDeviceSuitable ==
    /\ call.fn = "is_device_suitable" /\ call.pc = "called"
    /\ call' = [fn |-> call.fn, args |-> call.args, pc |-> "returned",
                result |-> is_device_suitable(call.args.device)]
    /\ UNCHANGED << frame_loop, upload >>

\* VulkanDetails::new unwraps the result: Err is the panic of startup
CallPickPhysicalDevice ==
    /\ call.fn = "pick_physical_device" /\ call.pc = "called"
    /\ LET r == pick_physical_device(call.args.devices)
       IN  call' = IF is_some(r)
                      THEN [fn |-> call.fn, args |-> call.args, pc |-> "returned",
                            result |-> r[1]]
                      ELSE [fn |-> call.fn, args |-> call.args, pc |-> "panicked"]
    /\ UNCHANGED << frame_loop, upload >>

\* a helper is entered with its arguments; the frame loop has not started
InitPure ==
    /\ StartupFrame
    /\ upload = NoUpload
    /\ \/ call \in ImageCountInputs
       \/ call \in SharingInputs
       \/ call \in FormatInputs
       \/ call \in PresentModeInputs
       \/ call \in ExtentInputs
       \/ call \in MemoryTypeInputs
       \/ call \in SuitableInputs
       \/ call \in PickInputs

CallImageCount ==
    /\ call.fn = "image_count" /\ call.pc = "called"
    /\ LET r == image_count(call.args, build)
       IN  call' = IF r.pc = "returned"
                      THEN [fn |-> call.fn, args |-> call.args, pc |-> "returned",
                            result |-> r.result]
                      ELSE [fn |-> call.fn, args |-> call.args, pc |-> "panicked"]
    /\ UNCHANGED << frame_loop, upload >>

CallSwapchainSharing ==
    /\ call.fn = "swapchain_sharing" /\ call.pc = "called"
    /\ call' = [fn |-> call.fn, args |-> call.args, pc |-> "returned",
                result |-> swapchain_sharing(call.args.graphics, call.args.present,
                                             call.args.target)]
    /\ UNCHANGED << frame_loop, upload >>

CallChooseSwapSurfaceFormat ==
    /\ call.fn = "choose_swap_surface_format" /\ call.pc = "called"
    /\ call' = [fn |-> call.fn, args |-> call.args, pc |-> "returned",
                result |-> choose_swap_surface_format(call.args.formats)]
    /\ UNCHANGED << frame_loop, upload >>

CallChooseSwapPresentMode ==
    /\ call.fn = "choose_swap_present_mode" /\ call.pc = "called"
    /\ call' = [fn |-> call.fn, args |-> call.args, pc |-> "returned",
                result |-> choose_swap_present_mode(call.args.present_modes)]
    /\ UNCHANGED << frame_loop, upload >>

CallChooseSwapExtent ==
    /\ call.fn = "choose_swap_extent" /\ call.pc = "called"
    /\ LET r == choose_swap_extent(call.args.window_size, call.args.capabilities)
       IN  call' = IF r.pc = "returned"
                      THEN [fn |-> call.fn, args |-> call.args, pc |-> "returned",
                            result |-> r.result]
                      ELSE [fn |-> call.fn, args |-> call.args, pc |-> "panicked"]
    /\ UNCHANGED << frame_loop, upload >>

CallFindMemoryType ==
    /\ call.fn = "find_memory_type" /\ call.pc = "called"
    /\ LET r == find_memory_type(call.args.memory_types, call.args.type_filter,
                                 call.args.properties)
       IN  call' = IF r.pc = "returned"
                      THEN [fn |-> call.fn, args |-> call.args, pc |-> "returned",
                            result |-> r.result]
                      ELSE [fn |-> call.fn, args |-> call.args, pc |-> "panicked"]
    /\ UNCHANGED << frame_loop, upload >>

NextPure ==
    \/ CallImageCount
    \/ CallSwapchainSharing
    \/ CallChooseSwapSurfaceFormat
    \/ CallChooseSwapPresentMode
    \/ CallChooseSwapExtent
    \/ CallFindMemoryType
    \/ CallIsDeviceSuitable
    \/ CallPickPhysicalDevice

SpecPure == InitPure /\ [][NextPure]_vars

\* ------------------------------------------------------------ type check
TypeOK ==
    /\ pc \in {"startup", "loop", "wait_fence", "acquire", "reset_fence", "reset_cb",
               "record", "update_ubo", "submit", "present", "advance",
               "rc_wait_idle", "rc_cleanup", "rc_create_swap_chain",
               "rc_create_image_views", "rc_create_framebuffers",
               "ld_wait_idle", "cleanup", "done", "fatal"}
    /\ rc_ret \in {"loop", "advance"}
    /\ exiting \in BOOLEAN
    /\ width \in Dims /\ height \in Dims
    /\ framebuffer_resized \in BOOLEAN
    /\ current_frame \in Nat
    /\ in_flight_fences \in [Slots -> BOOLEAN]
    /\ inflight \in [Slots -> BOOLEAN]
    /\ image_index \in 0 .. (MaxImages - 1)
    /\ backend_image_count \in ImageCounts
    /\ live \subseteq AllResources

\* ======================================================== frame loop claims
Suspended == width = 0 \/ height = 0

InDrawFrame ==
    pc \in {"wait_fence", "acquire", "reset_fence", "reset_cb", "record",
            "update_ubo", "submit", "present", "advance", "rc_wait_idle",
            "rc_cleanup", "rc_create_swap_chain", "rc_create_image_views",
            "rc_create_framebuffers"}

\* C1: whenever draw_frame is about to reset or re-record the command buffer
\* of slot current_frame, the CPU has observed that slot's fence signaled in
\* this cycle and no submission of that slot is still executing on the GPU.
C1_SlotReuse ==
    pc \in {"reset_cb", "record"} =>
        /\ cycle.fence_observed
        /\ ~inflight[current_frame]

\* slot 0 is re-recorded for a later cycle while slot 1 is still in flight
C1_Witness ==
    /\ pc = "record"
    /\ current_frame = 0
    /\ inflight[1]
    /\ cycle.fence_observed

\* C2: a draw_frame call whose acquire reported out-of-date resets no fence,
\* resets and records no command buffer, writes no uniform data, submits and
\* presents nothing, leaves the frame counter where it was and calls
\* recreate_swap_chain exactly once, returning to the event loop after it.
C2_AbortedAcquire ==
    cycle.acq = "ERROR_OUT_OF_DATE_KHR" =>
        /\ ~cycle.fence_reset
        /\ in_flight_fences[current_frame]
        /\ ~cycle.cb_reset
        /\ ~cycle.recorded
        /\ ~cycle.ubo_written
        /\ ~cycle.submitted
        /\ ~cycle.presented
        /\ ~cycle.advanced
        /\ current_frame = cycle.frame0
        /\ cycle.recreates = 1
        /\ rc_ret = "loop"
        /\ pc \notin {"reset_fence", "reset_cb", "record", "update_ubo",
                      "submit", "present", "advance", "fatal"}

\* the aborted call has returned to the event loop after its recreate
C2_Witness ==
    /\ pc = "loop"
    /\ cycle.acq = "ERROR_OUT_OF_DATE_KHR"
    /\ cycle.recreates = 1
    /\ SwapChainResources \subseteq live

\* C3: a step that destroys a framebuffer, image view, swapchain or device
\* resource is only taken when no queue submission is outstanding.
C3_IdleBeforeDestroy ==
    [][ (live \ live' # {}) => (\A i \in Slots : ~inflight[i]) ]_vars

\* the old swapchain was destroyed during a cycle that had submitted work
C3_Witness ==
    /\ pc = "rc_create_swap_chain"
    /\ cycle.submitted
    /\ live \cap SwapChainResources = {}

\* C4: whenever the swapchain, its views and its framebuffers all exist
\* (after the initial create and after every recreate), the three vectors
\* have the same length, which is the image count the backend returned for
\* the current swapchain.
C4_RecreationAtomicity ==
    SwapChainResources \subseteq live =>
        /\ Len(swap_chain_images) = backend_image_count
        /\ Len(swap_chain_image_views) = backend_image_count
        /\ Len(swap_chain_framebuffers) = backend_image_count

\* a recreate has finished whose image count differs from the previous one
C4_Witness ==
    /\ pc = "loop"
    /\ cycle.recreates = 1
    /\ SwapChainResources \subseteq live
    /\ backend_image_count # prev_image_count
    /\ Len(swap_chain_framebuffers) = backend_image_count

\* C5: while the window's width or height is zero the CPU is in no part of
\* draw_frame (so nothing is submitted or presented), and no step taken in
\* such a state changes the frame counter, so the first draw_frame after
\* the suspension starts from the counter value it had before.
C5_SuspendOnZeroSize ==
    /\ [](Suspended => ~InDrawFrame)
    /\ [][ Suspended => current_frame' = current_frame ]_vars

\* the loop is suspended by a resize to zero after a completed frame
C5_Witness ==
    /\ Suspended
    /\ pc = "loop"
    /\ framebuffer_resized
    /\ cycle.advanced
    /\ current_frame = 1

\* C6: the frame counter stays in 0..N-1; it changes only in the last step
\* of a cycle that acquired, recorded, submitted and presented, and then by
\* exactly one modulo N; every cycle that returns after its present has
\* advanced it (also when that present recreated the swapchain), and a
\* cycle that has not advanced leaves it at its starting value.
C6_FrameCounter ==
    /\ [](/\ current_frame \in Slots
          /\ (cycle.advanced =>
                 current_frame = (cycle.frame0 + 1) % MAX_FRAMES_IN_FLIGHT)
          /\ (~cycle.advanced => current_frame = cycle.frame0)
          /\ (pc = "loop" /\ cycle.presented => cycle.advanced))
    /\ [][ current_frame' # current_frame =>
              /\ pc = "advance"
              /\ IsOk(cycle.acq)
              /\ cycle.recorded /\ cycle.submitted /\ cycle.presented
              /\ current_frame' = (current_frame + 1) % MAX_FRAMES_IN_FLIGHT
         ]_vars

\* a cycle whose present recreated the swapchain wrapped the counter to 0
C6_Witness ==
    /\ pc = "loop"
    /\ cycle.advanced
    /\ cycle.recreates = 1
    /\ cycle.frame0 = 1
    /\ current_frame = 0

\* C7 as stated: once present was called, recreate has been triggered in
\* this cycle iff present reported out-of-date or suboptimal or a resize
\* notification was pending, and at most once.
C7_Original ==
    cycle.presented =>
        /\ cycle.recreates <= 1
        /\ (cycle.recreates = 1 <=>
               \/ cycle.pres = "ERROR_OUT_OF_DATE_KHR"
               \/ cycle.pres = "SUBOPTIMAL_KHR"
               \/ cycle.resize_pending)

\* C7 amended: once present was called, recreate has been triggered in this
\* cycle iff present reported out-of-date, or reported suboptimal, or
\* reported success while a resize notification was pending; a present that
\* fails otherwise triggers none, pending resize or not; at most once.
C7_PresentRecreate ==
    cycle.presented =>
        /\ cycle.recreates <= 1
        /\ (cycle.recreates = 1 <=>
               \/ cycle.pres = "ERROR_OUT_OF_DATE_KHR"
               \/ cycle.pres = "SUBOPTIMAL_KHR"
               \/ (cycle.pres = "SUCCESS" /\ cycle.resize_pending))

\* a successful present recreated only because a resize was pending
C7_Witness ==
    /\ cycle.presented
    /\ cycle.pres = "SUCCESS"
    /\ cycle.resize_pending
    /\ cycle.recreates = 1
    /\ pc = "rc_wait_idle"

\* C8 as stated: every resize event marks the swapchain stale, the mark is
\* dropped only by a present step, and a present step taken with the mark
\* set always triggers a recreate.
C8_Original ==
    [][ /\ ((width' # width \/ height' # height) => framebuffer_resized')
        /\ (framebuffer_resized /\ ~framebuffer_resized' => pc = "present")
        /\ (pc = "present" /\ pc' # pc /\ framebuffer_resized =>
               pc' = "rc_wait_idle")
      ]_vars

\* C8 amended: every resize event marks the swapchain stale, the mark is
\* dropped only by a present step that triggers a recreate, and a present
\* step taken with the mark set triggers a recreate unless the present call
\* fails with an error other than out-of-date, which aborts the process.
C8_ResizeNotLost ==
    [][ /\ ((width' # width \/ height' # height) => framebuffer_resized')
        /\ (framebuffer_resized /\ ~framebuffer_resized' =>
               pc = "present" /\ pc' = "rc_wait_idle")
        /\ (pc = "present" /\ pc' # pc /\ framebuffer_resized =>
               \/ pc' = "rc_wait_idle"
               \/ (pc' = "fatal" /\ cycle'.pres = "ERROR_SURFACE_LOST_KHR"))
      ]_vars

\* a pending resize notification is picked up by a successful present, which
\* clears the mark and enters recreate_swap_chain
C8_Witness ==
    /\ pc = "rc_wait_idle"
    /\ rc_ret = "advance"
    /\ cycle.resize_pending
    /\ cycle.pres = "SUCCESS"
    /\ ~framebuffer_resized

\* the outcomes C9 names as recoverable, as the cycle met them
OtherFailure(result) ==
    result \in VkResults /\ ~IsOk(result) /\ result # "ERROR_OUT_OF_DATE_KHR"
CycleFatal == OtherFailure(cycle.acq) \/ OtherFailure(cycle.pres)
ResizeAtPresent == cycle.presented /\ cycle.resize_pending

\* C9 as stated: the process is in the fatal state iff the acquire or the
\* present of the cycle reported a failure other than out-of-date; a cycle
\* that met out-of-date (acquire or present), suboptimal (acquire or
\* present) or a pending resize at its present is not fatal, and has called
\* recreate_swap_chain by the time it ends.
C9_Original ==
    /\ (pc = "fatal" <=> CycleFatal)
    /\ ((\/ cycle.acq = "ERROR_OUT_OF_DATE_KHR"
         \/ cycle.pres \in {"ERROR_OUT_OF_DATE_KHR", "SUBOPTIMAL_KHR"}
         \/ ResizeAtPresent)
        => (pc # "fatal" /\ cycle.recreates = 1))
    /\ ((cycle.acq = "SUBOPTIMAL_KHR" /\ pc = "advance")
        => cycle.recreates = 1)

\* C9: the process is in the fatal state iff the acquire or the present of
\* the cycle reported a failure other than out-of-date, whether or not a
\* resize is pending, and then nothing was recreated; a cycle in which
\* acquire reported out-of-date, or present reported out-of-date or
\* suboptimal, or present succeeded with a resize pending, is not fatal and
\* has called recreate_swap_chain once; a suboptimal acquire goes on as a
\* successful one and recreates nothing by itself.
C9_FatalIffOtherFailure ==
    /\ (pc = "fatal" <=> CycleFatal)
    /\ (pc = "fatal" => cycle.recreates = 0)
    /\ ((\/ cycle.acq = "ERROR_OUT_OF_DATE_KHR"
         \/ cycle.pres \in {"ERROR_OUT_OF_DATE_KHR", "SUBOPTIMAL_KHR"}
         \/ (cycle.pres = "SUCCESS" /\ cycle.resize_pending))
        => (pc # "fatal" /\ cycle.recreates = 1))
    /\ ((ResizeAtPresent /\ OtherFailure(cycle.pres))
        => (pc = "fatal" /\ framebuffer_resized))
    /\ ((cycle.acq = "SUBOPTIMAL_KHR" /\ ~cycle.presented)
        => (pc \in {"reset_fence", "reset_cb", "record", "update_ubo",
                    "submit", "present"} /\ cycle.recreates = 0))
    /\ ((cycle.acq = "SUBOPTIMAL_KHR" /\ cycle.pres = "SUCCESS"
            /\ ~cycle.resize_pending)
        => (pc # "fatal" /\ cycle.recreates = 0))

\* after a suboptimal acquire, present failed with surface-lost while a
\* resize was pending: fatal, nothing recreated
C9_Witness ==
    /\ pc = "fatal"
    /\ cycle.acq = "SUBOPTIMAL_KHR"
    /\ cycle.submitted
    /\ cycle.resize_pending
    /\ cycle.pres = "ERROR_SURFACE_LOST_KHR"
    /\ cycle.recreates = 0

\* C10 as stated: a cycle whose acquire reported suboptimal has recreated
\* the swapchain by the time it returns to the event loop.
C10_Original ==
    (pc = "loop" /\ cycle.acq = "SUBOPTIMAL_KHR") => cycle.recreates >= 1

\* C10 amended: a cycle whose acquire reported suboptimal proceeds exactly
\* like one whose acquire succeeded (fence reset, record, submit, present,
\* advance); by the time it returns it has recreated the swapchain iff its
\* own present reported out-of-date or suboptimal or a resize was pending.
C10_SuboptimalAcquire ==
    cycle.acq = "SUBOPTIMAL_KHR" =>
        /\ (~cycle.presented => cycle.recreates = 0)
        /\ (pc = "loop" =>
               /\ cycle.fence_reset /\ cycle.cb_reset /\ cycle.recorded
               /\ cycle.ubo_written /\ cycle.submitted /\ cycle.presented
               /\ cycle.advanced
               /\ (cycle.recreates = 1 <=>
                      \/ cycle.pres \in {"ERROR_OUT_OF_DATE_KHR", "SUBOPTIMAL_KHR"}
                      \/ cycle.resize_pending))

\* a suboptimal acquire followed by a clean present: no recreate at all
C10_Witness ==
    /\ pc = "loop"
    /\ cycle.acq = "SUBOPTIMAL_KHR"
    /\ cycle.pres = "SUCCESS"
    /\ cycle.advanced
    /\ cycle.recreates = 0

\* ============================================================ teardown
Reverse(seq) == [k \in 1 .. Len(seq) |-> seq[Len(seq) + 1 - k]]
LastN(seq, n) == [k \in 1 .. n |-> seq[Len(seq) - n + k]]
\* position of x in seq, 0 when absent
IndexOf(seq, x) ==
    IF \E k \in DOMAIN seq : seq[k] = x
       THEN CHOOSE k \in DOMAIN seq : seq[k] = x /\ \A j \in 1 .. (k - 1) : seq[j] # x
       ELSE 0
TeardownStarted == pc \in {"ld_wait_idle", "cleanup", "done"}

\* C11: after close and the idle wait the resources have been
\* destroyed in the exact reverse of their creation order, the last five
\* being command pool, device, surface, diagnostics messenger, instance.
C11_Original ==
    pc = "done" =>
        /\ teardown = Reverse(CreationOrder)
        /\ LastN(teardown, 5) =
              << "command_pool", "device", "surface", "debug_messenger", "instance" >>

\* C12: teardown starts only after a close request; once it has started the
\* CPU never returns to the event loop, to draw_frame or to
\* recreate_swap_chain; instance-level resources are destroyed only by the
\* one cleanup step, which is never taken twice.
C12_TeardownOnce ==
    /\ [](TeardownStarted => exiting)
    /\ []((live # AllResources /\ ~InDrawFrame) => pc = "done")
    /\ [][ /\ (TeardownStarted => (TeardownStarted' /\ ~InDrawFrame'))
           /\ (pc = "done" => (pc' = "done" /\ live' = live /\ teardown' = teardown))
           /\ ((live \cap InstanceResources) # (live' \cap InstanceResources) =>
                  (pc = "cleanup" /\ pc' = "done" /\ live = AllResources))
         ]_vars

\* teardown has run once, after a resize and a close request
C12_Witness ==
    /\ pc = "done"
    /\ exiting
    /\ framebuffer_resized
    /\ live = {}
    /\ Len(teardown) = Cardinality(AllResources)

\* ============================================================== upload
\* C13: the staging buffer, its memory and the one-shot command buffer are
\* freed only once queue_wait_idle has returned with the copy executed; the
\* command buffer is submitted at most once, exactly once by the time the
\* upload returns, and then all three have been freed.
C13_UploadRelease ==
    /\ upload.submits <= 1
    /\ ("freed" \in {upload.staging, upload.staging_memory, upload.cb} =>
           /\ upload.idle_observed
           /\ upload.copied
           /\ ~upload.pending
           /\ upload.submits = 1)
    /\ (upload.pc = "returned" =>
           /\ upload.staging = "freed"
           /\ upload.staging_memory = "freed"
           /\ upload.cb = "freed"
           /\ upload.submits = 1)

\* the upload of a three-byte source has returned
C13_Witness ==
    /\ upload.pc = "returned"
    /\ Len(upload.bytes) = MaxUploadLen
    /\ upload.copied
    /\ upload.staging_memory = "freed"
    /\ upload.cb = "freed"

\* C14: when the upload has returned the destination buffer holds exactly
\* the source bytes; staging and destination buffers have the source's
\* size and the one copy region runs from offset 0 over that size.
C14_UploadRoundTrip ==
    /\ (upload.staging # "none" => Len(upload.staging_data) = Len(upload.bytes))
    /\ (upload.dst # "none" => Len(upload.dst_data) = Len(upload.bytes))
    /\ (upload.pc = "returned" =>
           /\ upload.dst = "live"
           /\ upload.dst_data = upload.bytes
           /\ upload.region =
                 [src_offset |-> 0, dst_offset |-> 0, size |-> Len(upload.bytes)])

\* a source with two different byte values has arrived in the destination
C14_Witness ==
    /\ upload.pc = "returned"
    /\ Len(upload.bytes) = MaxUploadLen
    /\ upload.bytes[1] # upload.bytes[MaxUploadLen]
    /\ upload.dst_data = upload.bytes

\* ================================================== swapchain choices
Called(fn) == call.fn = fn
Returned(fn) == call.fn = fn /\ call.pc = "returned"
Min(a, b) == IF a <= b THEN a ELSE b
Max(a, b) == IF a >= b THEN a ELSE b

\* C15: the requested image count is min_image_count + 1, clamped to
\* max_image_count whenever max_image_count is nonzero.
C15_ImageCountClamped ==
    Returned("image_count") =>
        /\ (call.args.max_image_count = 0 =>
               call.result = call.args.min_image_count + 1)
        /\ (call.args.max_image_count > 0 =>
               /\ call.result = Min(call.args.min_image_count + 1,
                                    call.args.max_image_count)
               /\ call.result <= call.args.max_image_count)

\* C16: exclusive sharing when the graphics and present family indices are
\* equal; otherwise concurrent sharing whose index list, read as two 32-bit
\* values, is exactly {graphics index, present index}.
C16_SharingMode ==
    Returned("swapchain_sharing") =>
        IF call.args.graphics = call.args.present
           THEN call.result.image_sharing_mode = "EXCLUSIVE"
           ELSE /\ call.result.image_sharing_mode = "CONCURRENT"
                /\ call.result.queue_family_index_count = 2
                /\ Len(call.result.p_queue_family_indices) = 2
                /\ { call.result.p_queue_family_indices[k] : k \in 1 .. 2 }
                      = { call.args.graphics, call.args.present }

\* C17: from a non-empty list of surface formats the choice is an entry with
\* B8G8R8A8_SRGB and SRGB_NONLINEAR if the list has one, else the first entry.
Preferred(f) == f.format = "B8G8R8A8_SRGB" /\ f.color_space = "SRGB_NONLINEAR"
C17_FormatSelection ==
    Returned("choose_swap_surface_format") =>
        LET formats == call.args.formats
        IN  /\ \E k \in DOMAIN formats : call.result = formats[k]
            /\ ((\E k \in DOMAIN formats : Preferred(formats[k])) =>
                   Preferred(call.result))
            /\ ((\A k \in DOMAIN formats : ~Preferred(formats[k])) =>
                   call.result = formats[1])

\* the preferred entry is chosen from behind an entry that shares its format
C17_Witness ==
    /\ Returned("choose_swap_surface_format")
    /\ Len(call.args.formats) = MaxFormats
    /\ call.args.formats[1].format = "B8G8R8A8_SRGB"
    /\ ~Preferred(call.args.formats[1])
    /\ Preferred(call.args.formats[MaxFormats])
    /\ Preferred(call.result)

\* C18: the present mode chosen is MAILBOX if the list contains it at any
\* position, and FIFO otherwise.
C18_PresentModeSelection ==
    Returned("choose_swap_present_mode") =>
        LET modes == call.args.present_modes
        IN  call.result = IF \E k \in DOMAIN modes : modes[k] = "MAILBOX"
                             THEN "MAILBOX" ELSE "FIFO"

\* MAILBOX is chosen from the last position of a list that starts with FIFO
C18_Witness ==
    /\ Returned("choose_swap_present_mode")
    /\ Len(call.args.present_modes) = MaxModes
    /\ call.args.present_modes[1] = "FIFO"
    /\ call.args.present_modes[MaxModes] = "MAILBOX"
    /\ call.result = "MAILBOX"

\* C19: with the undefined sentinel as current extent the chosen extent is
\* the window size clamped per dimension to the surface's minimum and
\* maximum extent; otherwise it is the current extent, whatever the window
\* size.
C19_ExtentSelection ==
    Returned("choose_swap_extent") =>
        LET caps == call.args.capabilities
            win == call.args.window_size
        IN  IF caps.current_extent = UndefinedExtent
               THEN /\ call.result.width =
                          Max(caps.min_image_extent.width,
                              Min(win.width, caps.max_image_extent.width))
                    /\ call.result.height =
                          Max(caps.min_image_extent.height,
                              Min(win.height, caps.max_image_extent.height))
               ELSE call.result = caps.current_extent

\* a window wider than the maximum and lower than the minimum is clamped
C19_Witness ==
    /\ Returned("choose_swap_extent")
    /\ call.args.capabilities.current_extent = UndefinedExtent
    /\ call.args.window_size.width > call.args.capabilities.max_image_extent.width
    /\ call.args.window_size.height < call.args.capabilities.min_image_extent.height
    /\ call.result.width = call.args.capabilities.max_image_extent.width
    /\ call.result.height = call.args.capabilities.min_image_extent.height

\* C20: find_memory_type returns the lowest index whose bit is set in the
\* type filter and whose property flags include every required flag, and
\* it is fatal exactly when no index qualifies.
BitsOf(x) == { b \in 0 .. (WordBits - 1) : (x \div (2 ^ b)) % 2 = 1 }
Qualifies(i) ==
    /\ i \in BitsOf(call.args.type_filter)
    /\ BitsOf(call.args.properties) \subseteq BitsOf(call.args.memory_types[i + 1])
C20_MemoryTypeSelection ==
    Called("find_memory_type") =>
        LET indices == 0 .. (Len(call.args.memory_types) - 1)
        IN  /\ (call.pc = "returned" =>
                   /\ call.result \in indices
                   /\ Qualifies(call.result)
                   /\ \A j \in indices : j < call.result => ~Qualifies(j))
            /\ (call.pc = "panicked" <=> (call.pc # "called" /\ \A j \in indices : ~Qualifies(j)))

\* index 1 is returned: index 0 is in the filter but lacks a required flag
C20_Witness ==
    /\ Returned("find_memory_type")
    /\ call.result = 1
    /\ 0 \in BitsOf(call.args.type_filter)
    /\ BitAnd(call.args.memory_types[1], call.args.properties) # 0
    /\ ~Qualifies(0)

\* no memory type qualifies and the search is fatal
C20_WitnessFatal ==
    /\ call.fn = "find_memory_type"
    /\ call.pc = "panicked"

\* ====================================================== adapter selection
\* C21: an adapter is unsupported exactly when no queue family has graphics
\* capability, or none can present to the surface, or the swapchain
\* extension is absent, or the format list or the present-mode list is
\* empty; startup fails when no enumerated adapter is supported.
Unsupported(a) ==
    \/ \A k \in DOMAIN a.queue_family_properties :
          0 \notin BitsOf(a.queue_family_properties[k].queue_flags)
    \/ \A k \in DOMAIN a.queue_family_properties :
          ~a.queue_family_properties[k].surface_support
    \/ "VK_KHR_swapchain" \notin a.extension_properties
    \/ Len(a.formats) = 0
    \/ Len(a.present_modes) = 0
C21_AdapterSupport ==
    /\ (Returned("is_device_suitable") =>
           (call.result = FALSE <=> Unsupported(call.args.device)))
    /\ (Called("pick_physical_device") /\ call.pc # "called" =>
           /\ ((\A k \in DOMAIN call.args.devices : Unsupported(call.args.devices[k]))
                  => call.pc = "panicked")
           /\ (call.pc = "returned" =>
                  /\ call.result \in DOMAIN call.args.devices
                  /\ ~Unsupported(call.args.devices[call.result])))

\* an adapter that lacks nothing but a present mode is reported unsupported
C21_Witness ==
    /\ Returned("is_device_suitable")
    /\ call.result = FALSE
    /\ Len(call.args.device.queue_family_properties) = 2
    /\ call.args.device.queue_family_properties[2].queue_flags = 3
    /\ call.args.device.queue_family_properties[1].surface_support
    /\ "VK_KHR_swapchain" \in call.args.device.extension_properties
    /\ call.args.device.formats # << >>
    /\ call.args.device.present_modes = << >>

\* ============================================================ recreation
RcPcs == {"rc_wait_idle", "rc_cleanup", "rc_create_swap_chain",
          "rc_create_image_views", "rc_create_framebuffers"}
\* a step of the CPU inside recreate_swap_chain, and its last step
RecreateStep == pc \in RcPcs /\ pc' # pc
RecreateReturns == pc = "rc_create_framebuffers" /\ pc' # pc

\* C22: the swapchain state carries a generation counter that every
\* recreate increments by exactly one and that nothing else changes.
generation ==
    IF "generation" \in DOMAIN swap_chain_state THEN swap_chain_state["generation"] ELSE 0
C22_GenerationCounter ==
    [][ generation' = IF RecreateReturns THEN generation + 1 ELSE generation ]_vars

\* C23: a recreate changes nothing but the swapchain, its images, format,
\* views and framebuffers: the frame slots (command buffers, semaphores,
\* fences, uniform buffers), the frame counter, the render pass and the
\* pipeline are as they were.
C23_RecreateFrame ==
    [][ RecreateStep =>
           /\ current_frame' = current_frame
           /\ in_flight_fences' = in_flight_fences
           /\ inflight' = inflight
           /\ command_buffers' = command_buffers
           /\ image_available_semaphores' = image_available_semaphores
           /\ render_finished_semaphores' = render_finished_semaphores
           /\ render_pass' = render_pass
           /\ cycle'.ubo_slot = cycle.ubo_slot
           /\ (live' \ SwapChainResources) = (live \ SwapChainResources)
           /\ (DeviceResources \cup InstanceResources) \subseteq live' ]_vars

\* a recreate after the first frame has changed image count and format
C23_Witness ==
    /\ pc = "advance"
    /\ cycle.recreates = 1
    /\ current_frame = 1
    /\ command_buffers[1] # << >>
    /\ backend_image_count # prev_image_count
    /\ swap_chain_image_format # render_pass.format
    /\ SwapChainResources \subseteq live

\* C24: framebuffers, then image views, then the swapchain: that is the
\* order of destruction on recreate and at final teardown, and at teardown
\* all three go before the device and the device before the instance.
Before(seq, a, b) ==
    /\ a \in {seq[k] : k \in DOMAIN seq}
    /\ b \in {seq[k] : k \in DOMAIN seq}
    /\ IndexOf(seq, a) < IndexOf(seq, b)
C24_DestroyOrder ==
    /\ [](teardown # << >> =>
             SubSeq(teardown, 1, 3) = << "framebuffers", "image_views", "swap_chain" >>)
    /\ [](pc = "done" =>
             /\ \A r \in SwapChainResources : Before(teardown, r, "device")
             /\ Before(teardown, "device", "instance"))
    /\ [][ (live \cap SwapChainResources) # (live' \cap SwapChainResources)
              /\ live' \subseteq live =>
                 /\ SwapChainResources \subseteq live
                 /\ live' \cap SwapChainResources = {}
                 /\ SubSeq(teardown', 1, 3) = << "framebuffers", "image_views", "swap_chain" >> ]_vars
    /\ [](/\ Before(cleanup_order_graphicspipeline, "image_views", "swap_chain")
          /\ Before(cleanup_order_graphicspipeline, "swap_chain", "device")
          /\ Before(cleanup_order_graphicspipeline, "device", "instance"))

\* the loop was torn down after a frame whose present had recreated
C24_Witness ==
    /\ pc = "done"
    /\ cycle.recreates = 1
    /\ cycle.presented
    /\ Len(teardown) = Cardinality(AllResources)

\* ================================================================= slots
\* C25: a fence is reset only after a successful acquire of the same cycle;
\* an unsignaled fence without a pending submission exists only between
\* that reset and the one submit of the cycle, which signals it; so at the
\* wait step the fence is signaled or a submission that signals it is
\* pending.
C25_FenceSignal ==
    /\ [][ \A i \in Slots :
              (in_flight_fences[i] /\ ~in_flight_fences'[i]) =>
                 /\ i = current_frame
                 /\ IsOk(cycle.acq)
                 /\ pc = "reset_fence" ]_vars
    /\ [](pc # "fatal" =>
             \A i \in Slots :
                (~in_flight_fences[i] /\ ~inflight[i]) =>
                   /\ i = current_frame
                   /\ pc \in {"reset_cb", "record", "update_ubo", "submit"}
                   /\ cycle.fence_reset
                   /\ ~cycle.submitted)
    /\ [][ (cycle.submitted # cycle'.submitted /\ cycle'.submitted) =>
              /\ cycle.fence_reset
              /\ inflight'[current_frame]
              /\ pc = "submit" ]_vars
    /\ [](pc \in {"present", "advance"} => cycle.fence_reset /\ cycle.submitted)
    /\ [](pc = "wait_fence" =>
             in_flight_fences[current_frame] \/ inflight[current_frame])

\* the wait step is blocked on a submission that is still executing
C25_Witness ==
    /\ pc = "wait_fence"
    /\ ~in_flight_fences[current_frame]
    /\ inflight[current_frame]
    /\ cycle.frame0 = current_frame

\* C26: the CPU writes slot i's uniform buffer only after it has observed
\* slot i's fence signaled and before it submits, while no executing
\* submission reads that buffer; the command buffer of slot i binds the
\* uniform buffer of slot i and no other.
Reads(i) == { command_buffers[i][k].buffer : k \in DOMAIN command_buffers[i] }
C26_UniformWrite ==
    /\ [][ (pc = "update_ubo" /\ pc' # pc) =>
              /\ cycle.fence_observed
              /\ ~cycle.submitted
              /\ cycle'.ubo_slot = current_frame
              /\ \A j \in Slots : inflight[j] => cycle'.ubo_slot \notin Reads(j) ]_vars
    /\ [](pc = "submit" => cycle.ubo_written /\ cycle.ubo_slot = current_frame)
    /\ [](\A i \in Slots : Reads(i) \subseteq {i})

\* slot 0's buffer is written while slot 1's submission is executing
C26_Witness ==
    /\ pc = "submit"
    /\ current_frame = 0
    /\ cycle.ubo_written
    /\ inflight[1]
    /\ Reads(1) = {1}
    /\ Reads(0) = {0}

\* C27: a binary semaphore alternates signal and wait: the image-available
\* semaphore of a slot is handed to acquire only when its last signal was
\* consumed, and the render-finished semaphore of a slot is given to a
\* submit to signal only when no queued present still has to wait on it.
C27_SemaphoreAlternation ==
    [][ /\ (pc = "acquire" /\ pc' = "reset_fence" =>
               ~image_available_semaphores[current_frame])
        /\ (pc = "submit" /\ pc' = "present" =>
               render_finished_semaphores[current_frame] = NoImage) ]_vars

\* C28: when a recreate completes no resize notification is pending (the
\* event handler runs draw_frame to its end, so no resize event arrives
\* during a recreate).
C28_ResizeConsumed ==
    [][ RecreateReturns => ~framebuffer_resized' ]_vars

\* C29: when a frame is recorded the render pass was built with the format
\* of the current swapchain's images and views.
C29_RenderPassFormat ==
    pc = "record" =>
        /\ render_pass.format = swap_chain_image_format
        /\ \A k \in DOMAIN swap_chain_image_views :
              swap_chain_image_views[k].format = render_pass.format

\* =============================================================== progress
\* a frame was submitted and handed to the presentation engine
FramePresented == pc = "advance" /\ cycle.submitted /\ cycle.presented

\* C30 as stated: under fairness every draw_frame call terminates, and once
\* the window stays at positive size frames are submitted and presented
\* again and again until close.
C30_Original ==
    /\ (InDrawFrame ~> ~InDrawFrame)
    /\ (<>[](~Suspended) => []<>(FramePresented \/ exiting))

\* C30: under fairness every draw_frame call terminates, and once the
\* window stays at positive size frames are submitted and presented again
\* and again until close or until acquire or present reports a fatal error.
C30_Progress ==
    /\ (InDrawFrame ~> ~InDrawFrame)
    /\ (<>[](~Suspended) => []<>(FramePresented \/ exiting \/ pc = "fatal"))

\* the second frame is presented while the first is still executing
C30_Witness ==
    /\ FramePresented
    /\ ~Suspended
    /\ ~exiting
    /\ current_frame = 1
    /\ inflight[0]
    /\ inflight[1]
    /\ cycle.acq = "SUCCESS"

====
